---------------------------- MODULE Spec2Model ----------------------------
(***************************************************************************)
(* A model of the Minesweeper knowledge engine of src/minesweeper.py:      *)
(* Sentence (a set of cells and the number of mines among them),           *)
(* MinesweeperAI (moves_made, mines, safes, knowledge and the operations   *)
(* on them) and the part of Minesweeper the engine's caller consults       *)
(* (is_mine, nearby_mines).                                                *)
(***************************************************************************)
EXTENDS Integers, Sequences, FiniteSets, TLC

(* ------------------------------ bounds -------------------------------- *)

\* Board dimensions handed to MinesweeperAI.__init__ (the code's default is 8 x 8).
Height == 2
Width == 3
\* Largest number of mines laid on the board.
MaxMines == 2
\* Largest number of state-changing engine calls in one behaviour.
MaxCalls == 3
\* Largest count an unconstrained caller passes to add_knowledge.
MaxCount == 2

(* ------------------------------ values -------------------------------- *)

Cells == (0 .. Height - 1) \X (0 .. Width - 1)

Range(f) == {f[n] : n \in DOMAIN f}

\* Python's None where a set of cells is expected, and a returned set.
NoSet == [some |-> FALSE, val |-> {}]
SomeSet(S) == [some |-> TRUE, val |-> S]

\* Results of the move queries: None, a cell, or a raised TypeError.
RetNone == [kind |-> "None", cell |-> <<>>]
RetCell(c) == [kind |-> "cell", cell |-> c]
RetTypeError == [kind |-> "TypeError", cell |-> <<>>]

(* ----------------------------- Minesweeper ---------------------------- *)

is_mine(b, cell) == cell \in b

nearby_mines(b, cell) ==
    Cardinality({c \in (cell[1] - 1 .. cell[1] + 1) \X (cell[2] - 1 .. cell[2] + 1) :
                    /\ c # cell
                    /\ 0 <= c[1] /\ c[1] < Height /\ 0 <= c[2] /\ c[2] < Width
                    /\ c \in b})

(* ------------------------------ Sentence ------------------------------ *)

Sentence(cells, count) == [cells |-> cells, count |-> count]

Sentence_eq(s, t) == s.cells = t.cells /\ s.count = t.count

known_minesCountOnly(s) ==
    IF s.count > 0 THEN SomeSet(s.cells) ELSE NoSet

known_minesAnyCount(s) ==
    IF Cardinality(s.cells) = s.count THEN SomeSet(s.cells) ELSE NoSet

known_mines(s) ==
    IF Cardinality(s.cells) = s.count /\ s.count > 0 THEN SomeSet(s.cells) ELSE NoSet

known_safesAnyCount(s) ==
    IF Cardinality(s.cells) > 0 THEN SomeSet(s.cells) ELSE NoSet

known_safes(s) ==
    IF s.count = 0 /\ Cardinality(s.cells) > 0 THEN SomeSet(s.cells) ELSE NoSet

Sentence_mark_mineKeepCount(s, cell) ==
    IF cell \in s.cells THEN [s EXCEPT !.cells = @ \ {cell}] ELSE s

Sentence_mark_mineAlways(s, cell) ==
    [s EXCEPT !.cells = @ \ {cell}, !.count = @ - 1]

Sentence_mark_mine(s, cell) ==
    IF cell \in s.cells
    THEN [s EXCEPT !.cells = @ \ {cell}, !.count = @ - 1]
    ELSE s

Sentence_mark_safeDecrement(s, cell) ==
    IF cell \in s.cells
    THEN [s EXCEPT !.cells = @ \ {cell}, !.count = @ - 1]
    ELSE s

Sentence_mark_safe(s, cell) ==
    IF cell \in s.cells THEN [s EXCEPT !.cells = @ \ {cell}] ELSE s

(* ---------------------------- MinesweeperAI --------------------------- *)

\* The engine as a record of its four fields.
NewAI == [moves_made |-> {}, mines |-> {}, safes |-> {}, knowledge |-> <<>>]

mark_mine(ai, cell) ==
    [ai EXCEPT !.mines = @ \cup {cell},
               !.knowledge = [n \in DOMAIN @ |-> Sentence_mark_mine(@[n], cell)]]

mark_safeSentencesOnly(ai, cell) ==
    [ai EXCEPT !.knowledge = [n \in DOMAIN @ |-> Sentence_mark_safe(@[n], cell)]]

mark_safeUnmine(ai, cell) ==
    [ai EXCEPT !.safes = @ \cup {cell},
               !.mines = @ \ {cell},
               !.knowledge = [n \in DOMAIN @ |-> Sentence_mark_safe(@[n], cell)]]

mark_safe(ai, cell) ==
    [ai EXCEPT !.safes = @ \cup {cell},
               !.knowledge = [n \in DOMAIN @ |-> Sentence_mark_safe(@[n], cell)]]

\* for knownMine in knownMines: self.mark_mine(knownMine)
RECURSIVE MarkMines(_, _)
MarkMines(ai, S) ==
    IF S = {} THEN ai
    ELSE LET c == CHOOSE x \in S : TRUE IN MarkMines(mark_mine(ai, c), S \ {c})

\* for knownSafe in knownSafes: self.mark_safe(knownSafe)
RECURSIVE MarkSafes(_, _)
MarkSafes(ai, S) ==
    IF S = {} THEN ai
    ELSE LET c == CHOOSE x \in S : TRUE IN MarkSafes(mark_safe(ai, c), S \ {c})

neighbourCellsPlayedToo(cell, moves_made) ==
    {c \in (cell[1] - 1 .. cell[1] + 1) \X (cell[2] - 1 .. cell[2] + 1) :
        /\ c[1] > -1 /\ c[1] < Height /\ c[2] > -1 /\ c[2] < Width
        /\ c # cell}

\* The while loops collecting neighbourCells.
neighbourCells(cell, moves_made) ==
    {c \in (cell[1] - 1 .. cell[1] + 1) \X (cell[2] - 1 .. cell[2] + 1) :
        /\ c[1] > -1 /\ c[1] < Height /\ c[2] > -1 /\ c[2] < Width
        /\ c \notin moves_made}

\* Steps 1 and 2 of add_knowledge: record the move, mark it safe, append the
\* sentence of the neighbours.
AddNeighbourSentence(ai, cell, count) ==
    LET a1 == mark_safe([ai EXCEPT !.moves_made = @ \cup {cell}], cell)
        nb == neighbourCells(cell, a1.moves_made)
    IN  IF Cardinality(nb) > 0
        THEN [a1 EXCEPT !.knowledge = Append(@, Sentence(nb, count))]
        ELSE a1

InSeqNever(s, K) == FALSE

InSeq(s, K) == \E n \in DOMAIN K : Sentence_eq(K[n], s)

\* One test of the inner loop body for the pair (i, j): the sentence to add, if any.
DeriveCond(K, i, j) ==
    /\ ~Sentence_eq(K[i], K[j])
    /\ K[i].cells \subseteq K[j].cells

DiffSentence(K, i, j) ==
    Sentence(K[j].cells \ K[i].cells, K[j].count - K[i].count)

RECURSIVE DeriveLoopBatchOnly(_, _, _, _)
DeriveLoopBatchOnly(K, i, j, newK) ==
    IF i > Len(K) THEN newK
    ELSE IF j > Len(K) THEN DeriveLoopBatchOnly(K, i + 1, i + 2, newK)
    ELSE LET s == DiffSentence(K, i, j)
         IN  IF DeriveCond(K, i, j) /\ ~InSeq(s, newK)
             THEN DeriveLoopBatchOnly(K, i, j + 1, Append(newK, s))
             ELSE DeriveLoopBatchOnly(K, i, j + 1, newK)

\* The nested loops "for i in range(totalLength): for j in range(i+1, totalLength)",
\* indices shifted to 1-based; newK is newKnowledge so far.
RECURSIVE DeriveLoop(_, _, _, _)
DeriveLoop(K, i, j, newK) ==
    IF i > Len(K) THEN newK
    ELSE IF j > Len(K) THEN DeriveLoop(K, i + 1, i + 2, newK)
    ELSE LET s == DiffSentence(K, i, j)
         IN  IF DeriveCond(K, i, j) /\ ~InSeq(s, newK) /\ ~InSeq(s, K)
             THEN DeriveLoop(K, i, j + 1, Append(newK, s))
             ELSE DeriveLoop(K, i, j + 1, newK)

newKnowledge(K) == DeriveLoop(K, 1, 2, <<>>)

\* Step 3: self.knowledge.extend(newKnowledge).
DeriveStep(ai) == [ai EXCEPT !.knowledge = @ \o newKnowledge(@)]

\* The union of known_mines() over self.knowledge.
knownMines(K) ==
    UNION {known_mines(K[n]).val : n \in {m \in DOMAIN K : known_mines(K[m]).some}}

knownSafes(K) ==
    UNION {known_safes(K[n]).val : n \in {m \in DOMAIN K : known_safes(K[m]).some}}

SaturateNoSafes(ai) == MarkMines(ai, knownMines(ai.knowledge))

SaturateNoMines(ai) == MarkSafes(ai, knownSafes(ai.knowledge))

\* Step 4: mark the collected mines, then the collected safes.
Saturate(ai) ==
    LET km == knownMines(ai.knowledge)
        ks == knownSafes(ai.knowledge)
    IN  MarkSafes(MarkMines(ai, km), ks)

add_knowledge(ai, cell, count) ==
    Saturate(DeriveStep(AddNeighbourSentence(ai, cell, count)))

\* Every value a sentence takes during add_knowledge: after the reduction by
\* mark_safe(cell), when appended, and after each single reduction of the
\* saturation pass (the sets knownMines and knownSafes are iterated in an
\* order the code does not fix, so every subset is a possible prefix).
MutationValues(ai, cell, count) ==
    LET a2 == AddNeighbourSentence(ai, cell, count)
        a3 == DeriveStep(a2)
        km == knownMines(a3.knowledge)
        ks == knownSafes(a3.knowledge)
        a4 == MarkMines(a3, km)
    IN  Range(a2.knowledge) \cup Range(a3.knowledge)
        \cup UNION {Range(MarkMines(a3, M).knowledge) : M \in SUBSET km}
        \cup UNION {Range(MarkSafes(a4, T).knowledge) : T \in SUBSET ks}

\* make_safe_move: the results it can produce. random.sample(set, 1) returns an
\* element up to Python 3.10 and raises TypeError from Python 3.11 on.
make_safe_move(ai) ==
    LET safeNotMade == ai.safes \ ai.moves_made
    IN  IF Cardinality(safeNotMade) = 0 THEN {RetNone}
        ELSE {RetCell(c) : c \in safeNotMade} \cup {RetTypeError}

make_random_movePlayedToo(ai) ==
    LET allMoves == (0 .. Height - 1) \X (0 .. Width - 1)
        movesAvailable == allMoves \ ai.mines
    IN  IF Cardinality(movesAvailable) = 0 THEN {RetNone}
        ELSE {RetCell(c) : c \in movesAvailable} \cup {RetTypeError}

make_random_move(ai) ==
    LET allMoves == (0 .. Height - 1) \X (0 .. Width - 1)
        movesAvailable == (allMoves \ ai.moves_made) \ ai.mines
    IN  IF Cardinality(movesAvailable) = 0 THEN {RetNone}
        ELSE {RetCell(c) : c \in movesAvailable} \cup {RetTypeError}

(* ------------------------------- state -------------------------------- *)

VARIABLES
    board,       \* Minesweeper.mines: the cells holding a mine
    moves_made,  \* MinesweeperAI.moves_made
    mines,       \* MinesweeperAI.mines
    safes,       \* MinesweeperAI.safes
    knowledge,   \* MinesweeperAI.knowledge, a sequence of sentences
    op,          \* the operation that produced this state
    arg,         \* its arguments
    ret,         \* its result
    calls,       \* number of state-changing calls so far
    atDerive,    \* knowledge when the last add_knowledge began its derivation step
    atSaturate,  \* knowledge when the last add_knowledge began its saturation pass
    seen,        \* every sentence value the last operation produced
    before,      \* the engine before the last operation
    consistent,  \* every add_knowledge call so far agreed with the board
    first        \* the arguments of the first add_knowledge call, <<>> before it

engine == <<moves_made, mines, safes, knowledge>>
ghost == <<atDerive, atSaturate, seen>>
vars == <<board, moves_made, mines, safes, knowledge, op, arg, ret, calls,
          atDerive, atSaturate, seen, before, consistent, first>>

AI == [moves_made |-> moves_made, mines |-> mines, safes |-> safes,
       knowledge |-> knowledge]

SetAI(ai) ==
    /\ moves_made' = ai.moves_made
    /\ mines' = ai.mines
    /\ safes' = ai.safes
    /\ knowledge' = ai.knowledge

Boards == {b \in SUBSET Cells : Cardinality(b) <= MaxMines}

Init ==
    /\ board \in Boards
    /\ moves_made = {} /\ mines = {} /\ safes = {} /\ knowledge = <<>>
    /\ op = "init" /\ arg = <<>> /\ ret = RetNone /\ calls = 0
    /\ atDerive = <<>> /\ atSaturate = <<>> /\ seen = {}
    /\ before = NewAI
    /\ consistent = TRUE
    /\ first = <<>>

\* add_knowledge(cell, count) and its snapshots.
AddKnowledgeCall(cell, count) ==
    /\ SetAI(add_knowledge(AI, cell, count))
    /\ atDerive' = AddNeighbourSentence(AI, cell, count).knowledge
    /\ atSaturate' = DeriveStep(AddNeighbourSentence(AI, cell, count)).knowledge
    /\ seen' = MutationValues(AI, cell, count)
    /\ op' = "add_knowledge" /\ arg' = <<cell, count>> /\ ret' = RetNone
    /\ calls' = calls + 1
    /\ before' = AI
    /\ consistent' = (consistent /\ ~is_mine(board, cell)
                                  /\ count = nearby_mines(board, cell))
    /\ first' = IF first = <<>> THEN <<cell, count>> ELSE first
    /\ UNCHANGED board

\* The same, in a behaviour of at most MaxCalls state-changing calls.
DoAddKnowledge(cell, count) ==
    /\ calls < MaxCalls
    /\ AddKnowledgeCall(cell, count)

\* The caller reveals a cell that is no mine and reports its true count.
AddKnowledge ==
    \E cell \in Cells :
        /\ ~is_mine(board, cell)
        /\ DoAddKnowledge(cell, nearby_mines(board, cell))

\* A caller bound by no board: any cell, any count.
AddKnowledgeAny ==
    \E cell \in Cells, count \in 0 .. MaxCount : DoAddKnowledge(cell, count)

MakeSafeMove ==
    /\ \E r \in make_safe_move(AI) : ret' = r
    /\ op' = "make_safe_move" /\ arg' = <<>>
    /\ before' = AI
    /\ UNCHANGED <<board, engine, calls, ghost, consistent, first>>

MakeRandomMove ==
    /\ \E r \in make_random_move(AI) : ret' = r
    /\ op' = "make_random_move" /\ arg' = <<>>
    /\ before' = AI
    /\ UNCHANGED <<board, engine, calls, ghost, consistent, first>>

Next == AddKnowledge \/ MakeSafeMove \/ MakeRandomMove

Spec == Init /\ [][Next]_vars

NextAny == AddKnowledgeAny \/ MakeSafeMove \/ MakeRandomMove

SpecAny == Init /\ [][NextAny]_vars

\* The public mark_safe and mark_mine called from outside the engine, on any cell.
MarkSafeCall ==
    /\ calls < MaxCalls
    /\ calls' = calls + 1
    /\ \E cell \in Cells :
          /\ SetAI(mark_safe(AI, cell))
          /\ seen' = Range(mark_safe(AI, cell).knowledge)
          /\ arg' = <<cell>>
    /\ op' = "mark_safe" /\ ret' = RetNone
    /\ before' = AI
    /\ consistent' = FALSE
    /\ UNCHANGED <<board, atDerive, atSaturate, first>>

MarkMineCall ==
    /\ calls < MaxCalls
    /\ calls' = calls + 1
    /\ \E cell \in Cells :
          /\ SetAI(mark_mine(AI, cell))
          /\ seen' = Range(mark_mine(AI, cell).knowledge)
          /\ arg' = <<cell>>
    /\ op' = "mark_mine" /\ ret' = RetNone
    /\ before' = AI
    /\ consistent' = FALSE
    /\ UNCHANGED <<board, atDerive, atSaturate, first>>

NextMark == AddKnowledge \/ MarkSafeCall \/ MarkMineCall

SpecMark == Init /\ [][NextMark]_vars

\* Every public operation of the engine.
NextOps == AddKnowledge \/ MarkSafeCall \/ MarkMineCall \/ MakeSafeMove \/ MakeRandomMove

SpecOps == Init /\ [][NextOps]_vars

\* A caller that reveals every cell at most once, as many cells as it likes.
AddKnowledgeOnce ==
    \E cell \in Cells \ moves_made :
        /\ ~is_mine(board, cell)
        /\ AddKnowledgeCall(cell, nearby_mines(board, cell))

NextOnce == AddKnowledgeOnce \/ MakeSafeMove \/ MakeRandomMove

SpecOnce == Init /\ [][NextOnce]_vars

\* The same caller, which may once report a count that is not the board's:
\* the first call for which consistent becomes FALSE.
AddKnowledgeMisreport ==
    /\ consistent
    /\ \E cell \in Cells \ moves_made, count \in 0 .. MaxCount :
          /\ ~is_mine(board, cell) /\ count # nearby_mines(board, cell)
          /\ AddKnowledgeCall(cell, count)

NextOnceAny == AddKnowledgeOnce \/ AddKnowledgeMisreport \/ MakeSafeMove \/ MakeRandomMove

SpecOnceAny == Init /\ [][NextOnceAny]_vars

(* ----------------------------- the game loop -------------------------- *)

\* The caller's loop: ask for a safe move, fall back to a random move, stop on
\* None or on a mine, otherwise reveal the cell and report its count.

\* An iteration starts on a fresh engine or after add_knowledge.
GameSafeMove ==
    /\ op \in {"init", "add_knowledge"}
    /\ MakeSafeMove

\* make_safe_move returned None.
GameRandomMove ==
    /\ op = "make_safe_move" /\ ret = RetNone
    /\ MakeRandomMove

\* The chosen move is a cell and no mine.
GameReveal ==
    /\ op \in {"make_safe_move", "make_random_move"}
    /\ ret.kind = "cell"
    /\ ~is_mine(board, ret.cell)
    /\ AddKnowledgeCall(ret.cell, nearby_mines(board, ret.cell))

\* The loop has ended: no move is left, the move is a mine, or a query raised.
GameOver ==
    \/ op = "make_random_move" /\ ret = RetNone
    \/ op \in {"make_safe_move", "make_random_move"}
          /\ ret.kind = "cell" /\ is_mine(board, ret.cell)
    \/ ret = RetTypeError

NextGame == GameSafeMove \/ GameRandomMove \/ GameReveal

SpecGame == Init /\ [][NextGame]_vars

\* GameReveal can be taken: its guard (the step always changes calls).
RevealReady ==
    /\ op \in {"make_safe_move", "make_random_move"}
    /\ ret.kind = "cell"
    /\ ~is_mine(board, ret.cell)

\* The loop is sequential code: it takes its next step whenever it has one.
\* The last conjunct is WF_vars(GameReveal) with ENABLED written as the guard.
FairSpecGame ==
    /\ SpecGame
    /\ WF_vars(GameSafeMove)
    /\ WF_vars(GameRandomMove)
    /\ ([]<>(~RevealReady) \/ []<><<GameReveal>>_vars)

(* ------------------------------ claims -------------------------------- *)

ProperSubset(S, T) == S \subseteq T /\ S # T

CountInRange(s) == 0 <= s.count /\ s.count <= Cardinality(s.cells)

\* C1: with a caller that reveals only cells that are no mine and reports their
\* true counts, every cell in mines is a mine of the board, no cell in safes is
\* one, every sentence's count is the number of board mines among its cells, and
\* a cell returned by make_safe_move is no mine.
C1_Soundness ==
    /\ mines \subseteq board
    /\ safes \cap board = {}
    /\ \A n \in DOMAIN knowledge :
          knowledge[n].count = Cardinality(knowledge[n].cells \cap board)
    /\ (op = "make_safe_move" /\ ret.kind = "cell") => ~is_mine(board, ret.cell)

C1_Witness ==
    /\ op = "make_safe_move" /\ ret.kind = "cell"
    /\ mines # {}
    /\ \E n \in DOMAIN knowledge :
          knowledge[n].count > 0 /\ Cardinality(knowledge[n].cells) > knowledge[n].count

\* C2 as stated: safes and mines are disjoint after every engine operation, for
\* any sequence of add_knowledge calls whatever their cells and counts.
C2_DisjointAnyCalls == safes \cap mines = {}

\* C2 as amended: safes and mines are disjoint after every engine operation when
\* every add_knowledge call so far revealed a cell that is no mine of one fixed
\* board and reported its true count.
C2_DisjointConsistentCalls == consistent => safes \cap mines = {}

C2_Witness ==
    /\ consistent /\ op = "add_knowledge"
    /\ mines # {} /\ mines # before.mines
    /\ safes \ moves_made # {}

\* C3: with board-consistent add_knowledge calls, every value a sentence takes
\* (after each single reduction and when appended) has 0 <= count <= |cells|.
C3_CountInvariant ==
    /\ \A s \in seen : CountInRange(s)
    /\ \A n \in DOMAIN knowledge : CountInRange(knowledge[n])

C3_Witness ==
    /\ op = "add_knowledge"
    /\ mines # before.mines
    /\ safes \ moves_made # before.safes \ moves_made
    /\ \E s \in seen : s.count > 0 /\ Cardinality(s.cells) > s.count
    /\ Len(atSaturate) > Len(atDerive)

\* C4: whenever knowledge holds, at the derivation step, two distinct sentences A
\* and B with A.cells a proper subset of B.cells, in either order of appending,
\* knowledge holds right after the step a sentence equal to
\* (B.cells - A.cells, B.count - A.count).
C4_EveryOrderedPair ==
    op = "add_knowledge" =>
        \A i, j \in DOMAIN atDerive :
            (i # j /\ ProperSubset(atDerive[i].cells, atDerive[j].cells)) =>
                \E n \in DOMAIN atSaturate :
                    /\ atSaturate[n].cells = atDerive[j].cells \ atDerive[i].cells
                    /\ atSaturate[n].count = atDerive[j].count - atDerive[i].count

\* C5: after every engine operation no sentence of knowledge holds a cell that
\* is in safes or in mines.
C5_Purged ==
    \A n \in DOMAIN knowledge : knowledge[n].cells \cap (safes \cup mines) = {}

\* C6: make_safe_move returns None exactly when safes - moves_made is empty,
\* otherwise returns a cell of safes - moves_made, and changes no engine state.
C6_SafeMove ==
    op = "make_safe_move" =>
        /\ (ret = RetNone) <=> (safes \ moves_made = {})
        /\ safes \ moves_made # {} =>
              (ret.kind = "cell" /\ ret.cell \in safes \ moves_made)
        /\ AI = before

\* C7: make_random_move never returns a cell of moves_made or mines, returns an
\* in-bounds cell whenever some position is outside both, returns None exactly
\* when they cover the board, and changes no engine state.
C7_RandomMove ==
    op = "make_random_move" =>
        /\ ret.kind = "cell" => ret.cell \notin moves_made \cup mines
        /\ Cells \ (moves_made \cup mines) # {} =>
              (ret.kind = "cell" /\ ret.cell \in Cells)
        /\ (ret = RetNone) <=> (Cells \subseteq moves_made \cup mines)
        /\ AI = before

\* C8: every sentence in knowledge when the saturation pass starts that has
\* count 0 and some cell has all its cells in safes when add_knowledge returns.
C8_ZeroCount ==
    op = "add_knowledge" =>
        \A n \in DOMAIN atSaturate :
            (atSaturate[n].count = 0 /\ atSaturate[n].cells # {}) =>
                atSaturate[n].cells \subseteq safes

C8_Witness ==
    /\ op = "add_knowledge"
    /\ \E n \in DOMAIN atSaturate :
          /\ atSaturate[n].count = 0
          /\ Cardinality(atSaturate[n].cells) >= 2
          /\ atSaturate[n].cells \cap before.safes = {}

\* C9: every sentence in knowledge when the saturation pass starts whose count
\* equals its number of cells, not 0, has all its cells in mines when
\* add_knowledge returns.
C9_FullCount ==
    op = "add_knowledge" =>
        \A n \in DOMAIN atSaturate :
            (atSaturate[n].count = Cardinality(atSaturate[n].cells)
             /\ atSaturate[n].cells # {}) =>
                atSaturate[n].cells \subseteq mines

C9_Witness ==
    /\ op = "add_knowledge"
    /\ \E n \in DOMAIN atSaturate :
          /\ atSaturate[n].count = 2
          /\ Cardinality(atSaturate[n].cells) = 2
          /\ atSaturate[n].cells \cap before.mines = {}

\* C10: in every reachable engine state and for every cell, mark_safe applied
\* twice leaves the same safes, mines, moves_made and knowledge as applied once,
\* and so does mark_mine.
C10_MarkIdempotent ==
    \A cell \in Cells :
        /\ mark_safe(mark_safe(AI, cell), cell) = mark_safe(AI, cell)
        /\ mark_mine(mark_mine(AI, cell), cell) = mark_mine(AI, cell)

C10_Witness ==
    /\ op = "mark_mine"
    /\ knowledge # before.knowledge
    /\ \E n \in DOMAIN knowledge : knowledge[n].cells # {}
    /\ mark_mine(AI, arg[1]) = AI

Adjacent(cell) ==
    {c \in Cells : /\ c # cell
                   /\ c[1] \in cell[1] - 1 .. cell[1] + 1
                   /\ c[2] \in cell[2] - 1 .. cell[2] + 1}

Corners == {c \in Cells : c[1] \in {0, Height - 1} /\ c[2] \in {0, Width - 1}}

\* C11: in the game loop begun by add_knowledge(corner, 0) on a fresh engine,
\* every in-bounds neighbour of the corner is in safes, and make_safe_move
\* returns one of those neighbours not yet played until all of them are played,
\* and None from then on.
C11_CornerScenario ==
    (first # <<>> /\ first[1] \in Corners /\ first[2] = 0) =>
        /\ Adjacent(first[1]) \subseteq safes
        /\ op = "make_safe_move" =>
              IF Adjacent(first[1]) \subseteq moves_made
              THEN ret = RetNone
              ELSE ret.kind = "cell" /\ ret.cell \in Adjacent(first[1]) \ moves_made

\* C12: Sentence.mark_mine(cell) removes exactly that cell and lowers count by
\* exactly 1 when the cell is in the sentence and changes nothing otherwise;
\* Sentence.mark_safe(cell) removes exactly that cell when it is in the sentence
\* and never changes count.
C12_Reduction ==
    op \in {"mark_mine", "mark_safe"} =>
        /\ Len(knowledge) = Len(before.knowledge)
        /\ \A n \in DOMAIN before.knowledge :
              LET old == before.knowledge[n]
                  new == knowledge[n]
              IN  IF arg[1] \in old.cells
                  THEN /\ new.cells = old.cells \ {arg[1]}
                       /\ new.count = IF op = "mark_mine" THEN old.count - 1
                                                          ELSE old.count
                  ELSE new = old

C12_Witness ==
    /\ op = "mark_safe"
    /\ \E n \in DOMAIN before.knowledge :
          /\ arg[1] \in before.knowledge[n].cells
          /\ Cardinality(before.knowledge[n].cells) >= 2
          /\ before.knowledge[n].count > 0
    /\ \E n \in DOMAIN before.knowledge :
          /\ arg[1] \notin before.knowledge[n].cells
          /\ before.knowledge[n].cells # {}

\* The sentences the last operation consulted or produced.
Sentences == Range(knowledge) \cup Range(atSaturate) \cup seen

\* C13: known_mines returns the whole cell set exactly when |cells| = count and
\* count > 0, known_safes returns it exactly when count = 0 and |cells| > 0, each
\* returns None otherwise; never both return a set, and a sentence without cells
\* yields None for both.
C13_Queries ==
    \A s \in Sentences :
        /\ known_mines(s).some <=> (Cardinality(s.cells) = s.count /\ s.count > 0)
        /\ known_safes(s).some <=> (s.count = 0 /\ Cardinality(s.cells) > 0)
        /\ known_mines(s).some => known_mines(s).val = s.cells
        /\ known_safes(s).some => known_safes(s).val = s.cells
        /\ ~known_mines(s).some => known_mines(s) = NoSet
        /\ ~known_safes(s).some => known_safes(s) = NoSet
        /\ ~(known_mines(s).some /\ known_safes(s).some)
        /\ s.cells = {} => (known_mines(s) = NoSet /\ known_safes(s) = NoSet)

C13_Witness ==
    /\ \E s \in Sentences : s.cells # {} /\ Cardinality(s.cells) = s.count
    /\ \E s \in Sentences : s.cells # {} /\ s.count = 0
    /\ \E s \in Sentences : s.cells = {} /\ s.count = 0
    /\ \E s \in Sentences : s.cells # {} /\ s.count > 0
                            /\ Cardinality(s.cells) > s.count

\* C14: add_knowledge(cell, count) adds cell to moves_made and safes, then
\* appends exactly one sentence, of the in-bounds neighbours of cell that are not
\* in moves_made with the given count, and appends none when there is no such
\* neighbour.
C14_NeighbourSentence ==
    op = "add_knowledge" =>
        LET cell == arg[1]
            old == before.knowledge
            nb == Adjacent(cell) \ (before.moves_made \cup {cell})
        IN  /\ moves_made = before.moves_made \cup {cell}
            /\ cell \in safes
            /\ Len(atDerive) = Len(old) + (IF nb = {} THEN 0 ELSE 1)
            /\ \A n \in DOMAIN old :
                  atDerive[n] = [cells |-> old[n].cells \ {cell},
                                 count |-> old[n].count]
            /\ nb # {} => atDerive[Len(old) + 1] = [cells |-> nb, count |-> arg[2]]

C14_Witness ==
    /\ op = "add_knowledge"
    /\ Adjacent(arg[1]) \subseteq before.moves_made
    /\ Len(atDerive) = Len(before.knowledge)
    /\ Len(before.knowledge) >= 2

\* C15: the derivation step of add_knowledge never appends a sentence equal, in
\* cells and count, to a sentence already in knowledge at that moment or to
\* another sentence appended in the same step.
C15_NoDuplicateDerived ==
    op = "add_knowledge" =>
        \A n \in Len(atDerive) + 1 .. Len(atSaturate) :
            \A m \in 1 .. n - 1 :
                ~(atSaturate[m].cells = atSaturate[n].cells
                  /\ atSaturate[m].count = atSaturate[n].count)

\* Two pairs yield the same new sentence (appended once) and a third candidate
\* is already in knowledge.
C15_Witness ==
    /\ op = "add_knowledge"
    /\ Len(atSaturate) > Len(atDerive)
    /\ \E i, j, k \in DOMAIN atDerive :
          /\ i < k /\ k < j
          /\ atDerive[i] # atDerive[j] /\ atDerive[k] # atDerive[j]
          /\ atDerive[i].cells \subseteq atDerive[j].cells
          /\ atDerive[k].cells = atDerive[i].cells
          /\ atDerive[k].count = atDerive[i].count
          /\ \E n \in Len(atDerive) + 1 .. Len(atSaturate) :
                atSaturate[n] = [cells |-> atDerive[j].cells \ atDerive[i].cells,
                                 count |-> atDerive[j].count - atDerive[i].count]
    /\ \E i, j \in DOMAIN atDerive :
          /\ i < j
          /\ atDerive[i] # atDerive[j]
          /\ atDerive[i].cells \subseteq atDerive[j].cells
          /\ \E n \in DOMAIN atDerive :
                atDerive[n] = [cells |-> atDerive[j].cells \ atDerive[i].cells,
                               count |-> atDerive[j].count - atDerive[i].count]

\* A move the loop has chosen is outside moves_made, and add_knowledge has been
\* called at most Height * Width times.
ChosenMoveIsNew ==
    /\ (op \in {"make_safe_move", "make_random_move"} /\ ret.kind = "cell") =>
          ret.cell \notin moves_made
    /\ calls <= Height * Width

\* C16: in the game loop every chosen move is outside moves_made, every
\* add_knowledge strictly grows moves_made, add_knowledge is called at most
\* Height * Width times, and the loop eventually stops.
C16_LoopTerminates ==
    /\ []ChosenMoveIsNew
    /\ [][op' = "add_knowledge" =>
            (moves_made \subseteq moves_made' /\ moves_made' # moves_made)]_vars
    /\ <>GameOver

\* The loop ends with every cell of a board without mines revealed.
C16_Witness ==
    /\ GameOver
    /\ op = "make_random_move" /\ ret = RetNone
    /\ calls = Height * Width
    /\ moves_made = Cells

Inert(s) == s.cells = {} /\ s.count = 0

NotInert(s) == ~Inert(s)

NonEmpty(K) == {s \in Range(K) : s.cells # {}}

EmptyInert ==
    op = "add_knowledge" =>
        LET pruned == [moves_made |-> moves_made,
                       mines |-> before.mines,
                       safes |-> before.safes \cup {arg[1]},
                       knowledge |-> SelectSeq(atDerive, NotInert)]
            derived == DeriveStep(pruned)
            result == Saturate(derived)
        IN  /\ newKnowledge(atDerive) = newKnowledge(pruned.knowledge)
            /\ knownMines(atSaturate) = knownMines(derived.knowledge)
            /\ knownSafes(atSaturate) = knownSafes(derived.knowledge)
            /\ safes = result.safes
            /\ mines = result.mines
            /\ NonEmpty(knowledge) = NonEmpty(result.knowledge)

\* C17 as stated: in every add_knowledge call, whatever the calls before it, a
\* sentence of knowledge without cells and with count 0 makes add_knowledge
\* derive nothing and adds no cell to the saturation pass: the derived
\* sentences, safes, mines and the set of sentences with cells are those
\* add_knowledge yields when such sentences are removed before the derivation.
C17_EmptyInertAnyCalls == EmptyInert

\* C17 as amended: the same, when every add_knowledge call so far revealed a
\* cell that is no mine of one fixed board and reported its true count.
C17_EmptyInert == consistent => EmptyInert

\* An empty sentence precedes two sentences from which one is derived, and the
\* saturation pass marks a cell.
C17_Witness ==
    /\ consistent /\ op = "add_knowledge"
    /\ \E n \in DOMAIN atDerive :
          /\ Inert(atDerive[n])
          /\ \E i, j \in DOMAIN atDerive : n < i /\ i < j /\ DeriveCond(atDerive, i, j)
    /\ Len(atSaturate) > Len(atDerive)
    /\ (mines # before.mines \/ safes # before.safes \cup {arg[1]})

\* C18: every revealed cell is recorded as safe, moves_made is a subset of
\* safes, in every state reachable by add_knowledge calls.
C18_MovesAreSafe == moves_made \subseteq safes

\* A cell is known safe before it is played.
C18_Witness ==
    /\ op = "add_knowledge"
    /\ Cardinality(moves_made) >= 2
    /\ safes \ moves_made # {}

\* What an outside mark call leaves alone: the sentences without the cell and
\* the number of sentences.
OtherSentencesKept ==
    /\ Len(knowledge) = Len(before.knowledge)
    /\ \A n \in DOMAIN before.knowledge :
          arg[1] \notin before.knowledge[n].cells =>
              knowledge[n] = before.knowledge[n]

\* C19: no operation removes a cell from safes, mines or moves_made or a
\* sentence from knowledge; mark_mine(cell) changes only mines and the sentences
\* holding the cell, mark_safe(cell) only safes and the sentences holding the
\* cell.
C19_OnlyGrows ==
    /\ before.safes \subseteq safes
    /\ before.mines \subseteq mines
    /\ before.moves_made \subseteq moves_made
    /\ Len(before.knowledge) <= Len(knowledge)
    /\ op = "mark_mine" =>
          /\ mines = before.mines \cup {arg[1]}
          /\ safes = before.safes /\ moves_made = before.moves_made
          /\ OtherSentencesKept
    /\ op = "mark_safe" =>
          /\ safes = before.safes \cup {arg[1]}
          /\ mines = before.mines /\ moves_made = before.moves_made
          /\ OtherSentencesKept
    /\ op \in {"make_safe_move", "make_random_move"} => AI = before

C19_Witness ==
    /\ op = "mark_mine"
    /\ arg[1] \notin before.mines
    /\ before.safes # {} /\ before.moves_made # {}
    /\ \E n \in DOMAIN before.knowledge : arg[1] \in before.knowledge[n].cells
    /\ \E n \in DOMAIN before.knowledge :
          arg[1] \notin before.knowledge[n].cells /\ before.knowledge[n].cells # {}

=============================================================================
